---- MODULE Spec2Model ----
(***************************************************************************)
(* A model of portfolio-metrics: calculateCAGR, calculateXIRR,             *)
(* calculateSharpeRatio and calculateMaxDrawdown, with the helpers of       *)
(* utils (validate*, calculateYears, npv, mean, stdDev).                    *)
(*                                                                         *)
(* JavaScript numbers are IEEE-754 binary64.  The model computes them       *)
(* exactly: a finite number is sign * m * 2^e with m an arbitrary-size      *)
(* natural (a little-endian sequence of base-2^15 digits), and every        *)
(* arithmetic operator rounds its exact result to 53 significant bits,      *)
(* ties to even, as the hardware does.  NaN and the infinities are values   *)
(* of their own.  Zero carries no sign: the functions modelled never        *)
(* divide by a zero they computed as negative, and -0 === 0 in every        *)
(* comparison they make.                                                    *)
(***************************************************************************)
EXTENDS Integers, Sequences, FiniteSets, TLC

(***************************************************************************)
(* Arbitrary-size naturals.                                                *)
(***************************************************************************)
Base == 32768

LimbBits == 15

Pow2(k) == 2^k

\* a without its leading zero digits
BNorm(a) ==
  SubSeq(a, 1, Cardinality({i \in 1..Len(a) : \E j \in i..Len(a) : a[j] # 0}))

RECURSIVE BFromNat(_)
BFromNat(n) == IF n = 0 THEN <<>> ELSE <<n % Base>> \o BFromNat(n \div Base)

Limb(a, i) == IF i <= Len(a) THEN a[i] ELSE 0

MaxOf(x, y) == IF x >= y THEN x ELSE y

MinOf(x, y) == IF x <= y THEN x ELSE y

\* the carry into the digit i of the digit sums s, each below 2 * Base - 1:
\* some digit below overflows and every digit between passes the carry on
Carry(s, i) ==
  IF \E j \in 1..(i - 1) :
       s[j] >= Base /\ \A k \in (j + 1)..(i - 1) : s[k] = Base - 1
  THEN 1 ELSE 0

\* the number with the digit sums s, its last sum taking a carry in full
Carried(s) == BNorm([i \in 1..Len(s) |-> (s[i] + Carry(s, i)) % Base])

BAdd(a, b) ==
  Carried([i \in 1..(MaxOf(Len(a), Len(b)) + 1) |->
                    Limb(a, i) + Limb(b, i)])

\* the borrow from the digit i of the digit differences d
Borrow(d, i) ==
  IF \E j \in 1..(i - 1) : d[j] < 0 /\ \A k \in (j + 1)..(i - 1) : d[k] = 0
  THEN 1 ELSE 0

Borrowed(d) ==
  BNorm([i \in 1..Len(d) |-> (d[i] - Borrow(d, i)) % Base])

\* a - b for a >= b
BSub(a, b) == Borrowed([i \in 1..Len(a) |-> a[i] - Limb(b, i)])

\* the highest place where a and b of one length differ, 0 when a = b
TopDiff(a, b) ==
  Cardinality({i \in 1..Len(a) : \E j \in i..Len(a) : a[j] # b[j]})

\* -1, 0, 1 as a < b, a = b, a > b
BCmp(a, b) ==
  IF Len(a) # Len(b) THEN (IF Len(a) < Len(b) THEN -1 ELSE 1)
  ELSE IF a = b THEN 0
  ELSE IF a[TopDiff(a, b)] < b[TopDiff(a, b)] THEN -1
  ELSE 1

\* a * d for a digit d: the low half of each digit's product and the high
\* half of the product below it
BMulSmall(a, d) ==
  Carried([i \in 1..(Len(a) + 1) |->
                    ((Limb(a, i) * d) % Base)
                    + (IF i = 1 THEN 0 ELSE (a[i - 1] * d) \div Base)])

BShiftLimbs(a, q) == IF a = <<>> THEN <<>> ELSE [i \in 1..q |-> 0] \o a

RECURSIVE BMulAt(_, _, _)
BMulAt(a, b, j) ==
  IF j > Len(b) THEN <<>>
  ELSE BAdd(BShiftLimbs(BMulSmall(a, b[j]), j - 1), BMulAt(a, b, j + 1))

BMul(a, b) == IF a = <<>> \/ b = <<>> THEN <<>> ELSE BMulAt(a, b, 1)

\* a * 2^k
BShl(a, k) == BShiftLimbs(BMulSmall(a, Pow2(k % LimbBits)), k \div LimbBits)

\* floor(a / 2^r) for r < LimbBits: the high bits of each digit and the low
\* bits of the digit above it
BShrBits(a, r) ==
  BNorm([i \in 1..Len(a) |->
                  (a[i] \div Pow2(r))
                  + ((Limb(a, i + 1) % Pow2(r)) * Pow2(LimbBits - r))])

\* floor(a / 2^k)
BShr(a, k) ==
  IF k \div LimbBits >= Len(a) THEN <<>>
  ELSE BShrBits(SubSeq(a, k \div LimbBits + 1, Len(a)), k % LimbBits)

\* the number of bits of the digit n
NatBitLen(n) == Cardinality({b \in 0..(LimbBits - 1) : Pow2(b) <= n})

BBitLen(a) ==
  IF a = <<>> THEN 0 ELSE (Len(a) - 1) * LimbBits + NatBitLen(a[Len(a)])

BIsOdd(a) == a # <<>> /\ a[1] % 2 = 1

\* the number of trailing zero bits of the digit n # 0
NatTrailingZeros(n) == Cardinality({b \in 1..LimbBits : n % Pow2(b) = 0})

\* the number of low digits of a # 0 that are 0
ZeroLimbs(a) == Cardinality({i \in 1..Len(a) : \A j \in 1..i : a[j] = 0})

\* the number of trailing zero bits of a # 0
BTrailingZeros(a) ==
  (ZeroLimbs(a) * LimbBits) + NatTrailingZeros(a[ZeroLimbs(a) + 1])

(***************************************************************************)
(* JavaScript values.  A number is finite ("fin": s * m * 2^e, s in        *)
(* {-1, 0, 1}, m odd, or zero), an infinity ("inf", s its sign) or NaN;    *)
(* the other kinds are the non-numbers the validations tell apart.         *)
(***************************************************************************)
MantBits == 53

MinExp == -1074

MaxExp == 1023

Val(kind, sign, mant, exp) == [k |-> kind, s |-> sign, m |-> mant, e |-> exp]

NaN == Val("nan", 0, <<>>, 0)

PosInf == Val("inf", 1, <<>>, 0)

NegInf == Val("inf", -1, <<>>, 0)

Zero == Val("fin", 0, <<>>, 0)

Undefined == Val("undefined", 0, <<>>, 0)

Str == Val("string", 0, <<>>, 0)

Inf(sign) == IF sign < 0 THEN NegInf ELSE PosInf

\* typeof v === 'number'
IsNumber(v) == v.k \in {"fin", "inf", "nan"}

\* isNaN(v) for a v that is a number
IsNaN(v) == v.k = "nan"

\* sign * M * 2^e for an M with tz trailing zero bits: the mantissa made odd
Odd(sign, M, e, tz) == Val("fin", sign, BShr(M, tz), e + tz)

\* the number sign * M * 2^e, which is exactly representable unless too large
Pack(sign, M, e) ==
  IF M = <<>> THEN Zero
  ELSE IF BBitLen(M) + e - 1 > MaxExp THEN Inf(sign)
  ELSE Odd(sign, M, e, BTrailingZeros(M))

\* q, or the next integer: c is how the bits dropped compare with half a
\* unit (-1, 0, 1), sticky whether there is a little more beyond them
RoundTo(q, c, sticky) ==
  IF c > 0 \/ (c = 0 /\ (sticky \/ BIsOdd(q))) THEN BAdd(q, <<1>>) ELSE q

\* M / 2^p (a little more when sticky) rounded to an integer, ties to even
BRound(M, p, sticky) ==
  RoundTo(BShr(M, p),
          BCmp(BSub(M, BShl(BShr(M, p), p)), BShl(<<1>>, p - 1)), sticky)

\* Round when p low bits of M do not fit
RoundAt(sign, M, e, sticky, p) ==
  Pack(sign, IF p <= 0 THEN M ELSE BRound(M, p, sticky),
       IF p <= 0 THEN e ELSE e + p)

\* sign * M * 2^e (a little more when sticky) rounded to the nearest number,
\* ties to even
Round(sign, M, e, sticky) ==
  IF M = <<>> THEN Zero
  ELSE RoundAt(sign, M, e, sticky, MaxOf(BBitLen(M) - MantBits, MinExp - e))

\* the integer n as a number (exact for |n| < 2^31)
Int2Num(n) ==
  Pack(IF n < 0 THEN -1 ELSE 1, BFromNat(IF n < 0 THEN -n ELSE n), 0)

\* the place above the top bit of a finite non-zero x
Top(x) == x.e + BBitLen(x.m)

\* |x| against |y| for finite non-zero x, y: -1, 0, 1
MagCmp(x, y) ==
  IF Top(x) < Top(y) THEN -1
  ELSE IF Top(x) > Top(y) THEN 1
  ELSE BCmp(BShl(x.m, x.e - MinOf(x.e, y.e)), BShl(y.m, y.e - MinOf(x.e, y.e)))

\* x against y for numbers that are not NaN: -1, 0, 1
NumCmp(x, y) ==
  IF x.k = "inf" \/ y.k = "inf"
  THEN LET a == IF x.k = "inf" THEN 2 * x.s ELSE x.s
           b == IF y.k = "inf" THEN 2 * y.s ELSE y.s
       IN  IF a < b THEN -1 ELSE IF a > b THEN 1 ELSE 0
  ELSE IF x.s # y.s THEN (IF x.s < y.s THEN -1 ELSE 1)
  ELSE IF x.s = 0 THEN 0
  ELSE x.s * MagCmp(x, y)

\* x < y, x > y, x <= y, x >= y, x === y: false when either is NaN
Lt(x, y) == ~IsNaN(x) /\ ~IsNaN(y) /\ NumCmp(x, y) < 0

Gt(x, y) == ~IsNaN(x) /\ ~IsNaN(y) /\ NumCmp(x, y) > 0

Le(x, y) == ~IsNaN(x) /\ ~IsNaN(y) /\ NumCmp(x, y) <= 0

Ge(x, y) == ~IsNaN(x) /\ ~IsNaN(y) /\ NumCmp(x, y) >= 0

StrictEq(x, y) == ~IsNaN(x) /\ ~IsNaN(y) /\ NumCmp(x, y) = 0

\* -x
Neg(x) == IF x.k = "nan" THEN NaN ELSE Val(x.k, -x.s, x.m, x.e)

\* Math.abs(x)
Abs(x) == IF x.k = "nan" THEN NaN ELSE Val(x.k, x.s * x.s, x.m, x.e)

FarBits == 60

\* x (its top place tx), or what stands for it next to a number with the top
\* place ty: an operand below a quarter of the other's last place decides
\* nothing but the direction, and any such value rounds the same
Near(x, tx, ty) ==
  IF tx + FarBits < ty THEN Val("fin", x.s, <<1>>, ty - FarBits) ELSE x

\* sx * X * 2^e + sy * Y * 2^e
AddAt(sx, X, sy, Y, e) ==
  Round(IF sx = sy \/ BCmp(X, Y) > 0 THEN sx ELSE sy,
        IF sx = sy THEN BAdd(X, Y)
        ELSE IF BCmp(X, Y) > 0 THEN BSub(X, Y)
        ELSE BSub(Y, X),
        e, FALSE)

\* a + b for finite non-zero a, b, both mantissas brought to the place e
AddFin(a, b, e) == AddAt(a.s, BShl(a.m, a.e - e), b.s, BShl(b.m, b.e - e), e)

AddNear(a, b) == AddFin(a, b, MinOf(a.e, b.e))

\* x + y
Add(x, y) ==
  IF IsNaN(x) \/ IsNaN(y) THEN NaN
  ELSE IF x.k = "inf"
  THEN (IF y.k = "inf" /\ y.s # x.s THEN NaN ELSE x)
  ELSE IF y.k = "inf" THEN y
  ELSE IF x.s = 0 THEN y
  ELSE IF y.s = 0 THEN x
  ELSE AddNear(Near(x, Top(x), Top(y)), Near(y, Top(y), Top(x)))

\* x - y
Sub(x, y) == Add(x, Neg(y))

\* x * y
Mul(x, y) ==
  IF IsNaN(x) \/ IsNaN(y) THEN NaN
  ELSE IF x.k = "inf" \/ y.k = "inf"
  THEN (IF x.s = 0 \/ y.s = 0 THEN NaN ELSE Inf(x.s * y.s))
  ELSE IF x.s = 0 \/ y.s = 0 THEN Zero
  ELSE Round(x.s * y.s, BMul(x.m, y.m), x.e + y.e, FALSE)

\* the top digits of R that stand above D's top digit
TopDigits(R, D) ==
  IF Len(R) > Len(D) THEN R[Len(R)] * Base + R[Len(R) - 1] ELSE R[Len(R)]

\* floor(R / D) for R < Base * D, given the estimate qhat from the top
\* digits: D's top digit is at least Base / 2, so qhat is at most 2 high
QuotDigit(R, D, qhat) ==
  CHOOSE q \in MaxOf(0, qhat - 2)..qhat :
    /\ BCmp(BMulSmall(D, q), R) <= 0
    /\ BCmp(BMulSmall(D, q + 1), R) > 0

Quot(R, D) ==
  IF Len(R) < Len(D) THEN 0
  ELSE QuotDigit(R, D, MinOf(TopDigits(R, D) \div D[Len(D)], Base - 1))

\* long division, one quotient digit a step, over the digits N[i], ..., N[1]
\* with R the remainder and Q the quotient so far: <<quotient, remainder>>
RECURSIVE DivDigits(_, _, _, _, _)
DivDigits(N, D, i, R, Q) ==
  IF i = 0 THEN <<Q, R>>
  ELSE LET R1 == BNorm(<<N[i]>> \o R)
           q  == Quot(R1, D)
       IN  IF q = 0 THEN DivDigits(N, D, i - 1, R1, <<0>> \o Q)
           ELSE DivDigits(N, D, i - 1, BSub(R1, BMulSmall(D, q)), <<q>> \o Q)

\* <<quotient, remainder>> of a division done with both sides times 2^sh
Unshift(qr, sh) == <<BNorm(qr[1]), BShr(qr[2], sh)>>

\* the division starts below the top digits of N that are fewer than D's
BDivModAt(N, D, sh) ==
  IF Len(N) < Len(D) THEN <<<<>>, BShr(N, sh)>>
  ELSE Unshift(DivDigits(N, D, Len(N) - Len(D) + 1,
                         SubSeq(N, Len(N) - Len(D) + 2, Len(N)), <<>>), sh)

\* <<floor(N / D), N mod D>> for D # 0
BDivMod(N, D) ==
  BDivModAt(BShl(N, LimbBits - NatBitLen(D[Len(D)])),
            BShl(D, LimbBits - NatBitLen(D[Len(D)])),
            LimbBits - NatBitLen(D[Len(D)]))

QuotBits == 56

\* sign * (q + a little more when r # 0) * 2^e rounded, qr = <<q, r>>
RoundQuot(sign, qr, e) == Round(sign, qr[1], e, qr[2] # <<>>)

\* x / y for finite non-zero x, y from n more bits of x: enough digits of
\* the quotient to round it
DivAt(x, y, n) ==
  RoundQuot(x.s * y.s, BDivMod(BShl(x.m, n), y.m), x.e - y.e - n)

\* x / y
Div(x, y) ==
  IF IsNaN(x) \/ IsNaN(y) THEN NaN
  ELSE IF x.k = "inf"
  THEN (IF y.k = "inf" THEN NaN ELSE Inf(x.s * (IF y.s < 0 THEN -1 ELSE 1)))
  ELSE IF y.k = "inf" THEN Zero
  ELSE IF y.s = 0 THEN (IF x.s = 0 THEN NaN ELSE Inf(x.s))
  ELSE IF x.s = 0 THEN Zero
  ELSE DivAt(x, y, MaxOf(0, QuotBits + BBitLen(y.m) - BBitLen(x.m)))

\* Newton's iteration from x >= sqrt(N) down to floor(sqrt(N))
RECURSIVE SqrtFrom(_, _)
SqrtStep(N, x, y) == IF BCmp(y, x) >= 0 THEN x ELSE SqrtFrom(N, y)

SqrtFrom(N, x) == SqrtStep(N, x, BShr(BAdd(x, BDivMod(N, x)[1]), 1))

\* floor(sqrt(N)) for N # 0
BSqrt(N) == SqrtFrom(N, BShl(<<1>>, (BBitLen(N) + 1) \div 2))

RootBits == 110

\* r, the whole part of sqrt(N), times 2^e, rounded
RoundRoot(N, r, e) == Round(1, r, e, BMul(r, r) # N)

\* sqrt(m * 2^e) from the whole part of sqrt(m * 2^k), e - k being even
SqrtOf(m, e, k) == RoundRoot(BShl(m, k), BSqrt(BShl(m, k)), (e - k) \div 2)

\* sqrt(m * 2^e) from at least k more bits of m
SqrtAt(m, e, k) == SqrtOf(m, e, IF (e - k) % 2 = 0 THEN k ELSE k + 1)

\* Math.sqrt(x)
Sqrt(x) ==
  IF IsNaN(x) \/ x.s < 0 THEN NaN
  ELSE IF x.k = "inf" \/ x.s = 0 THEN x
  ELSE SqrtAt(x.m, x.e, MaxOf(0, RootBits - BBitLen(x.m)))

\* m^n for n >= 0
RECURSIVE BPow(_, _)
BPow(m, n) == IF n = 0 THEN <<1>> ELSE BMul(m, BPow(m, n - 1))

\* 1, 0.5
One == Val("fin", 1, <<1>>, 0)

Half == Val("fin", 1, <<1>>, -1)

\* whether the finite y is one of 2, 3, ..., MaxIntPow
MaxIntPow == 8

IsSmallInt(y) == \E n \in 2..MaxIntPow : y = Int2Num(n)

SmallInt(y) == CHOOSE n \in 2..MaxIntPow : y = Int2Num(n)

\* x^n for a finite x and a whole n >= 2: the exact power, rounded
PowInt(x, n) ==
  IF x.s = 0 THEN Zero
  ELSE Round(IF n % 2 = 0 THEN 1 ELSE x.s, BPow(x.m, n), x.e * n, FALSE)

\* Math.pow(x, y) for the exponents the functions reach here: 0, 1, 1/2 and
\* small whole numbers, where the exact power rounded once is the result;
\* any other exponent is outside the model (there is no OTHER arm)
Pow(x, y) ==
  CASE IsNaN(y) -> NaN
    [] y = Zero -> One
    [] y # Zero /\ ~IsNaN(y) /\ IsNaN(x) -> NaN
    [] y = One /\ ~IsNaN(x) -> x
    [] y = Half /\ ~IsNaN(x) -> IF x = NegInf THEN PosInf ELSE Sqrt(x)
    [] IsSmallInt(y) /\ x.k = "inf" ->
         Inf(IF SmallInt(y) % 2 = 0 THEN 1 ELSE x.s)
    [] IsSmallInt(y) /\ x.k = "fin" -> PowInt(x, SmallInt(y))

(***************************************************************************)
(* Dates, outcomes.                                                        *)
(***************************************************************************)
\* a Date object holding the time value t (a number, NaN for an Invalid Date)
DateOf(t) == Val(IF IsNaN(t) THEN "invalid-date" ELSE "date", t.s, t.m, t.e)

\* date instanceof Date
IsDate(d) == d.k \in {"date", "invalid-date"}

\* date.getTime(), and the number a Date converts to in date - date
GetTime(d) == IF d.k = "date" THEN Val("fin", d.s, d.m, d.e) ELSE NaN

\* !v is false
Truthy(v) ==
  CASE v.k = "fin" -> v.s # 0
    [] v.k = "inf" -> TRUE
    [] v.k \in {"nan", "undefined"} -> FALSE
    [] v.k \in {"string", "date", "invalid-date"} -> TRUE

\* how a call ends (or "none": it goes on)
Outcome(kind, msg, index, value) ==
  [kind |-> kind, msg |-> msg, index |-> index, value |-> value]

Ok == Outcome("none", "", -1, Undefined)

Throw(msg) == Outcome("throw", msg, -1, Undefined)

ThrowAt(msg, i) == Outcome("throw", msg, i, Undefined)

Return(v) == Outcome("return", "", -1, v)

\* F(x) with x evaluated before F is entered, as JavaScript evaluates the
\* arguments of a call
Call(F(_), x) == CHOOSE y \in {F(v) : v \in {x}} : TRUE

(***************************************************************************)
(* utils: the validations.  A label is the message's first words.          *)
(***************************************************************************)
validateDate(date, label) ==
  IF ~IsDate(date) \/ IsNaN(GetTime(date))
  THEN Throw(label \o " must be a valid Date object")
  ELSE Ok

validatePositiveNumber(value, label) ==
  IF ~IsNumber(value) \/ Le(value, Zero)
  THEN Throw(label \o " must be a positive number")
  ELSE Ok

\* a validation that rejects 0 too
validateNonNegativeStrict(value, label) ==
  IF ~IsNumber(value) \/ Le(value, Zero)
  THEN Throw(label \o " must be a non-negative number")
  ELSE Ok

validateNonNegativeNumber(value, label) ==
  IF ~IsNumber(value) \/ Lt(value, Zero)
  THEN Throw(label \o " must be a non-negative number")
  ELSE Ok

validateExpenseRatio(expenseRatio) ==
  IF ~IsNumber(expenseRatio) \/ Lt(expenseRatio, Zero) \/ Ge(expenseRatio, One)
  THEN Throw("Expense ratio must be a number between 0 and 1 (e.g., 0.01 for 1%)")
  ELSE Ok

\* 1000 * 60 * 60 * 24 * 365.25
msPerYear ==
  Mul(Mul(Mul(Mul(Int2Num(1000), Int2Num(60)), Int2Num(60)), Int2Num(24)),
      Div(Int2Num(36525), Int2Num(100)))

calculateYears(startDate, endDate) ==
  Div(Sub(GetTime(endDate), GetTime(startDate)), msPerYear)

(***************************************************************************)
(* calculateCAGR                                                           *)
(***************************************************************************)
\* lines 45 to 51: what is returned for the gross rate cagr
netCAGR(cagr, expenseRatio) ==
  IF expenseRatio # Undefined
  THEN Sub(Mul(Add(One, cagr), Sub(One, expenseRatio)), One)
  ELSE cagr

calculateCAGR(initialValue, finalValue, startDate, endDate, expenseRatio) ==
  LET v1 == validatePositiveNumber(initialValue, "Initial value")
      v2 == validateNonNegativeNumber(finalValue, "Final value")
      v3 == validateDate(startDate, "Start date")
      v4 == validateDate(endDate, "End date")
      v5 == IF expenseRatio # Undefined
            THEN validateExpenseRatio(expenseRatio) ELSE Ok
  IN  IF v1.kind = "throw" THEN v1
      ELSE IF v2.kind = "throw" THEN v2
      ELSE IF v3.kind = "throw" THEN v3
      ELSE IF v4.kind = "throw" THEN v4
      ELSE IF Ge(GetTime(startDate), GetTime(endDate))
      THEN Throw("Start date must be before end date")
      ELSE IF v5.kind = "throw" THEN v5
      ELSE IF StrictEq(finalValue, Zero) THEN Return(Neg(One))
      ELSE Return(Call(LAMBDA cagr : netCAGR(cagr, expenseRatio),
                       Sub(Pow(Div(finalValue, initialValue),
                               Div(One, calculateYears(startDate, endDate))),
                           One)))

(***************************************************************************)
(* Arrays.  What a caller passes where an array is expected is an array    *)
(* (its items a sequence) or something else (null).                        *)
(***************************************************************************)
Arr(items) == [isArray |-> TRUE, items |-> items]

NotArr == [isArray |-> FALSE, items |-> <<>>]

\* Array.isArray(a)
IsArray(a) == a.isArray

\* a.length
Length(a) == Len(a.items)

(***************************************************************************)
(* utils: npv, mean, stdDev                                                *)
(***************************************************************************)
\* (365.25 * 24 * 60 * 60 * 1000)
npvMsPerYear ==
  Mul(Mul(Mul(Mul(Div(Int2Num(36525), Int2Num(100)), Int2Num(24)),
              Int2Num(60)), Int2Num(60)), Int2Num(1000))

\* the for loop of npv from the i-th cashflow on, sum being the sum so far
RECURSIVE NpvFrom(_, _, _, _, _)
NpvFrom(r, cashflows, refDate, i, sum) ==
  IF i > Len(cashflows) THEN sum
  ELSE LET cf == cashflows[i]
           t  == Div(Sub(GetTime(cf.date), GetTime(refDate)), npvMsPerYear)
       IN  NpvFrom(r, cashflows, refDate, i + 1,
                   Add(sum, Div(cf.amount, Pow(Add(One, r), t))))

npv(r, cashflows, refDate) == NpvFrom(r, cashflows, refDate, 1, Zero)

\* arr.reduce((sum, val) => sum + val, 0), from the i-th element on
RECURSIVE SumFrom(_, _, _)
SumFrom(arr, i, sum) ==
  IF i > Len(arr) THEN sum ELSE SumFrom(arr, i + 1, Add(sum, arr[i]))

mean(arr) ==
  IF Len(arr) = 0 THEN Zero
  ELSE Div(SumFrom(arr, 1, Zero), Int2Num(Len(arr)))

\* arr.reduce((sum, val) => sum + Math.pow(val - avg, 2), 0)
RECURSIVE SumSquaresFrom(_, _, _, _)
SumSquaresFrom(arr, avg, i, sum) ==
  IF i > Len(arr) THEN sum
  ELSE SumSquaresFrom(arr, avg, i + 1,
                      Add(sum, Pow(Sub(arr[i], avg), Int2Num(2))))

stdDev(arr) ==
  IF Len(arr) < 2 THEN Zero
  ELSE Call(LAMBDA avg : Sqrt(Div(SumSquaresFrom(arr, avg, 1, Zero),
                                  Int2Num(Len(arr) - 1))),
            mean(arr))

(***************************************************************************)
(* calculateSharpeRatio                                                    *)
(***************************************************************************)
\* the first index (from 0) of an element that is no valid number, or -1
RECURSIVE FirstBadReturn(_, _)
FirstBadReturn(items, i) ==
  IF i > Len(items) THEN -1
  ELSE IF ~IsNumber(items[i]) \/ IsNaN(items[i]) THEN i - 1
  ELSE FirstBadReturn(items, i + 1)

\* 1e-10
ZeroVolatility == Div(One, Mul(Int2Num(100000), Int2Num(100000)))

\* lines 155 to 163
sharpeOf(avgReturn, volatility, riskFreeRate) ==
  IF Lt(volatility, ZeroVolatility)
  THEN (IF Gt(avgReturn, riskFreeRate) THEN PosInf
        ELSE IF Lt(avgReturn, riskFreeRate) THEN NegInf
        ELSE Zero)
  ELSE Div(Sub(avgReturn, riskFreeRate), volatility)

calculateSharpeRatio(returns, riskFreeRate) ==
  IF ~IsArray(returns) \/ Length(returns) < 2
  THEN Throw("Returns must be an array with at least 2 values")
  ELSE IF FirstBadReturn(returns.items, 1) >= 0
  THEN ThrowAt("Return at index ${i} must be a valid number",
               FirstBadReturn(returns.items, 1))
  ELSE IF ~IsNumber(riskFreeRate) \/ IsNaN(riskFreeRate)
  THEN Throw("Risk-free rate must be a valid number")
  ELSE Return(sharpeOf(mean(returns.items), stdDev(returns.items),
                       riskFreeRate))

(***************************************************************************)
(* calculateMaxDrawdown                                                    *)
(***************************************************************************)
\* the first index (from 0) of an element that is no non-negative number,
\* or -1
RECURSIVE FirstBadValue(_, _)
FirstBadValue(items, i) ==
  IF i > Len(items) THEN -1
  ELSE IF ~IsNumber(items[i]) \/ IsNaN(items[i]) \/ Lt(items[i], Zero)
  THEN i - 1
  ELSE FirstBadValue(items, i + 1)

\* a drawdown that divides by the value instead of the peak
drawdownByValue(value, maxSoFar) == Div(Sub(value, maxSoFar), value)

\* line 191: (values[i] - maxSoFar) / maxSoFar
drawdownOf(value, maxSoFar) == Div(Sub(value, maxSoFar), maxSoFar)

\* lines 192 to 194: drawdown when it is below maxDrawdown
Lower(drawdown, maxDrawdown) ==
  IF Lt(drawdown, maxDrawdown) THEN drawdown ELSE maxDrawdown

\* a scan that measures every decline from the first value
RECURSIVE DrawdownFromFirst(_, _, _, _)
DrawdownFromFirst(values, i, maxSoFar, maxDrawdown) ==
  IF i > Len(values) THEN maxDrawdown
  ELSE IF Gt(values[i], maxSoFar)
  THEN DrawdownFromFirst(values, i + 1, maxSoFar, maxDrawdown)
  ELSE DrawdownFromFirst(values, i + 1, maxSoFar,
                         Lower(drawdownOf(values[i], maxSoFar), maxDrawdown))

\* the scan from values[i] on (i from 1)
RECURSIVE DrawdownFrom(_, _, _, _)
DrawdownFrom(values, i, maxSoFar, maxDrawdown) ==
  IF i > Len(values) THEN maxDrawdown
  ELSE IF Gt(values[i], maxSoFar)
  THEN DrawdownFrom(values, i + 1, values[i], maxDrawdown)
  ELSE DrawdownFrom(values, i + 1, maxSoFar,
                    Lower(drawdownOf(values[i], maxSoFar), maxDrawdown))

calculateMaxDrawdown(values) ==
  IF ~IsArray(values) \/ Length(values) < 2
  THEN Throw("Values must be an array with at least 2 elements")
  ELSE IF FirstBadValue(values.items, 1) >= 0
  THEN ThrowAt("Value at index ${i} must be a non-negative number",
               FirstBadValue(values.items, 1))
  ELSE Return(DrawdownFrom(values.items, 2, values.items[1], Zero))

(***************************************************************************)
(* calculateXIRR, a step at a time: the validation, the sort and the       *)
(* bracket check, one iteration of the bisection, the final check.         *)
(***************************************************************************)
\* a cashflow as the caller passes it: an object (its properties date and
\* amount, undefined when missing) or something that is no object (null)
Cashflow(date, amount) == [obj |-> TRUE, date |-> date, amount |-> amount]

NoObject == [obj |-> FALSE, date |-> Undefined, amount |-> Undefined]

\* the for loop over the entries from the i-th on (i from 1), then the
\* check of the signs: how it ends, and validCashflows
RECURSIVE ValidateFrom(_, _, _, _, _)
ValidateFrom(items, i, validCashflows, hasPositive, hasNegative) ==
  IF i > Len(items)
  THEN [out |-> IF ~hasPositive \/ ~hasNegative
                THEN Throw("Cashflows must contain at least one positive and one negative amount")
                ELSE Ok,
        validCashflows |-> validCashflows]
  ELSE LET cf == items[i]
       IN  IF ~cf.obj \/ ~Truthy(cf.date) \/ ~Truthy(cf.amount)
           THEN [out |-> ThrowAt("Cashflow at index ${i} must have 'date' and 'amount' properties", i - 1),
                 validCashflows |-> validCashflows]
           ELSE IF ~IsDate(cf.date) \/ IsNaN(GetTime(cf.date))
           THEN [out |-> ThrowAt("Cashflow at index ${i} must have a valid Date for 'date'", i - 1),
                 validCashflows |-> validCashflows]
           ELSE IF ~IsNumber(cf.amount) \/ IsNaN(cf.amount)
           THEN [out |-> ThrowAt("Cashflow at index ${i} must have a valid number for 'amount'", i - 1),
                 validCashflows |-> validCashflows]
           ELSE ValidateFrom(items, i + 1,
                             Append(validCashflows, Cashflow(cf.date, cf.amount)),
                             hasPositive \/ Gt(cf.amount, Zero),
                             hasNegative \/ Lt(cf.amount, Zero))

\* a validation that looks at the entries before the length
xirrValidateEntriesFirst(cashflows) ==
  LET v == ValidateFrom(cashflows.items, 1, <<>>, FALSE, FALSE)
  IN  IF v.out.index >= 0 THEN v
      ELSE IF ~IsArray(cashflows) \/ Length(cashflows) < 2
      THEN [out |-> Throw("Cashflows must be an array with at least 2 entries"),
            validCashflows |-> <<>>]
      ELSE v

xirrValidate(cashflows) ==
  IF ~IsArray(cashflows) \/ Length(cashflows) < 2
  THEN [out |-> Throw("Cashflows must be an array with at least 2 entries"),
        validCashflows |-> <<>>]
  ELSE ValidateFrom(cashflows.items, 1, <<>>, FALSE, FALSE)

\* a.date - b.date <= 0: the comparator does not put a after b
NotAfter(a, b) == Le(Sub(GetTime(a.date), GetTime(b.date)), Zero)

\* cf put into the sorted arr behind the entries that are not after it
RECURSIVE InsertByDate(_, _)
InsertByDate(arr, cf) ==
  IF arr = <<>> THEN <<cf>>
  ELSE IF NotAfter(arr[Len(arr)], cf) THEN Append(arr, cf)
  ELSE Append(InsertByDate(SubSeq(arr, 1, Len(arr) - 1), cf), arr[Len(arr)])

\* arr.sort((a, b) => a.date - b.date): ascending, stable
RECURSIVE SortByDate(_)
SortByDate(arr) ==
  IF arr = <<>> THEN <<>>
  ELSE InsertByDate(SortByDate(SubSeq(arr, 1, Len(arr) - 1)), arr[Len(arr)])

\* a sort of validCashflows that sorts the caller's array with it, as when
\* the two are one array
AfterSortOfAlias(name, arr) == SortByDate(arr)

\* the array called name, arr before line 91, after line 91: the sort method
\* is called on validCashflows
AfterSort(name, arr) ==
  IF name = "validCashflows" THEN SortByDate(arr) ELSE arr

\* -0.999, 100000.0, 1e-6, 1e-4
LowRate == Neg(Div(Int2Num(999), Int2Num(1000)))

HighRate == Int2Num(100000)

tolerance == Div(One, Int2Num(1000000))

FinalTolerance == Div(One, Int2Num(10000))

maxIterations == 100

\* the locals of a call of calculateXIRR
Locals(validCashflows, refDate, low, high, iter) ==
  [validCashflows |-> validCashflows, refDate |-> refDate,
   low |-> low, high |-> high, iter |-> iter]

NoLocals == Locals(<<>>, Undefined, Undefined, Undefined, 0)

\* lines 96 to 107 for the sorted validCashflows and their refDate
bracketOf(validCashflows, refDate, low, high) ==
  [out |-> IF Gt(Mul(npv(low, validCashflows, refDate),
                     npv(high, validCashflows, refDate)), Zero)
           THEN Throw("Cannot calculate XIRR: No solution found in the search range")
           ELSE Ok,
   loc |-> Locals(validCashflows, refDate, low, high, 0)]

\* lines 94 to 107 on the sorted validCashflows
bracketSorted(validCashflows) ==
  bracketOf(validCashflows, validCashflows[1].date, LowRate, HighRate)

\* lines 90 to 107, validCashflows being the validated copies
xirrBracket(validCashflows) ==
  bracketSorted(AfterSort("validCashflows", validCashflows))

\* (low + high) / 2
Midpoint(low, high) == Div(Add(low, high), Int2Num(2))

\* lines 113 to 122 for the middle rate mid and its value midNpv
bisect(loc, mid, midNpv) ==
  IF Lt(Abs(midNpv), tolerance)
  THEN [out |-> Return(mid), loc |-> loc]
  ELSE [out |-> Ok,
        loc |-> IF Gt(midNpv, Zero)
                THEN [loc EXCEPT !.low = mid, !.iter = @ + 1]
                ELSE [loc EXCEPT !.high = mid, !.iter = @ + 1]]

\* lines 110 to 122 for the middle rate mid
iterateAt(loc, mid) ==
  bisect(loc, mid, npv(mid, loc.validCashflows, loc.refDate))

\* one iteration of the for loop of lines 109 to 123
xirrIterate(loc) == iterateAt(loc, Midpoint(loc.low, loc.high))

\* a final step that returns the rate whatever its value
finalAtUnchecked(loc, finalR) == Return(finalR)

\* lines 126 to 131 for the rate finalR
finalAt(loc, finalR) ==
  IF Gt(Abs(npv(finalR, loc.validCashflows, loc.refDate)), FinalTolerance)
  THEN Throw("Cannot calculate XIRR: NPV does not converge to zero")
  ELSE Return(finalR)

\* lines 125 to 131
xirrFinal(loc) == finalAt(loc, Midpoint(loc.low, loc.high))

\* the next n iterations of the loop from st = [out, loc], as long as none
\* returns
RECURSIVE Iterations(_, _)
Iterations(st, n) ==
  IF st.out.kind # "none" \/ n = 0 THEN st
  ELSE IF n = 1 THEN xirrIterate(st.loc)
  ELSE Iterations(Iterations(st, n \div 2), n - n \div 2)

\* the whole call
calculateXIRR(cashflows) ==
  LET v  == xirrValidate(cashflows)
      b  == xirrBracket(v.validCashflows)
      it == Iterations(b, maxIterations)
  IN  IF v.out.kind = "throw" THEN v.out
      ELSE IF b.out.kind = "throw" THEN b.out
      ELSE IF it.out.kind = "return" THEN it.out
      ELSE xirrFinal(it.loc)

(***************************************************************************)
(* The calls.  A behaviour is one call of one function: fn and args are    *)
(* the function and the arguments as the call holds them (an array by      *)
(* reference), given the arguments as the caller passed them, pc where the *)
(* call is, loc the locals of calculateXIRR, result how the call ended.    *)
(***************************************************************************)
VARIABLES fn, args, given, pc, loc, result

vars == <<fn, args, given, pc, loc, result>>

\* the sequences over S of length 0 to n
SeqsUpTo(S, n) == UNION {[1..k -> S] : k \in 0..n}

\* new Date(y years of 365.25 days after the epoch)
DateAt(y) == DateOf(Mul(Int2Num(y), msPerYear))

InvalidDate == DateOf(NaN)

\* n / d, the number a decimal literal denotes
Dec(n, d) == Div(Int2Num(n), Int2Num(d))

(* calculateCAGR's arguments *)
CagrYears == {0, 1, 2}

CagrInitialValues == {Int2Num(100), Zero, Int2Num(-100), NaN, Str}

CagrFinalValues == {Int2Num(200), Int2Num(50), Zero, Int2Num(-200), NaN, Str}

CagrDates == {DateAt(y) : y \in CagrYears} \cup {InvalidDate, Str}

CagrExpenseRatios ==
  {Undefined, Zero, Dec(1, 100), Dec(15, 10), Dec(-1, 100), One, NaN, Str}

CagrArgs ==
  [initialValue : CagrInitialValues, finalValue : CagrFinalValues,
   startDate : CagrDates, endDate : CagrDates,
   expenseRatio : CagrExpenseRatios]

(* calculateXIRR's argument *)
MaxCashflows == 2

XirrDates == {DateAt(0), DateAt(1)}

\* 1e16
Large == Mul(Int2Num(100000000), Int2Num(100000000))

\* cashflows of everyday size, on any date
PlainCashflows ==
  {Cashflow(d, a) : d \in XirrDates, a \in {Int2Num(-1000), Int2Num(1200)}}

\* cashflows that are no valid entry
BadCashflows ==
  {NoObject,
   Cashflow(Undefined, Int2Num(-1000)), Cashflow(DateAt(0), Undefined),
   Cashflow(Str, Int2Num(-1000)), Cashflow(InvalidDate, Int2Num(1200)),
   Cashflow(DateAt(0), Str), Cashflow(DateAt(0), NaN),
   Cashflow(DateAt(1), Zero)}

MaxSameDate == 3

\* cashflows on one date, of very different sizes or of no size
SameDateCashflows ==
  {Cashflow(DateAt(0), a) : a \in {Large, Neg(Large), One, Zero}}

\* 1e11 paid, 1.1e11 received a year later
HugeCashflows ==
  {Cashflow(DateAt(0), Neg(Mul(Int2Num(100000), Int2Num(1000000)))),
   Cashflow(DateAt(1), Mul(Int2Num(110000), Int2Num(1000000)))}

XirrArgs ==
  [cashflows : {NotArr}
     \cup {Arr(c) : c \in SeqsUpTo(PlainCashflows \cup BadCashflows, MaxCashflows)}
     \cup {Arr(c) : c \in SeqsUpTo(SameDateCashflows, MaxSameDate)}
     \cup {Arr(c) : c \in SeqsUpTo(HugeCashflows, MaxCashflows)}]

(* calculateSharpeRatio's arguments *)
MaxReturns == 3

ReturnValues == {Dec(1, 10), Dec(-2, 100), PosInf, NaN, Str}

RiskFreeRates == {Dec(1, 10), Dec(2, 100), NaN, Str}

SharpeArgs ==
  [returns : {NotArr} \cup {Arr(r) : r \in SeqsUpTo(ReturnValues, MaxReturns)},
   riskFreeRate : RiskFreeRates]

(* calculateMaxDrawdown's argument *)
MaxValues == 3

\* 2^53 and 2^53 + 2, neighbours among the numbers of that size
TwoTo53 == Val("fin", 1, <<1>>, 53)

TwoTo53Plus2 == Val("fin", 1, <<1, 0, 0, 128>>, 1)

ValueValues ==
  {Zero, One, Int2Num(100), TwoTo53, TwoTo53Plus2, PosInf,
   Int2Num(-100), NaN, Str}

DrawdownArgs ==
  [values : {NotArr} \cup {Arr(v) : v \in SeqsUpTo(ValueValues, MaxValues)}]

Called(f, a) ==
  /\ fn = f
  /\ args \in a
  /\ given = args
  /\ pc = "call"
  /\ loc = NoLocals
  /\ result = Ok

InitCAGR == Called("calculateCAGR", CagrArgs)

InitXIRR == Called("calculateXIRR", XirrArgs)

InitSharpe == Called("calculateSharpeRatio", SharpeArgs)

InitDrawdown == Called("calculateMaxDrawdown", DrawdownArgs)

Init == InitCAGR \/ InitXIRR \/ InitSharpe \/ InitDrawdown

\* the call ends with out
Ends(out) ==
  /\ result' = out
  /\ pc' = "done"

CallCAGR ==
  /\ pc = "call"
  /\ fn = "calculateCAGR"
  /\ Ends(calculateCAGR(args.initialValue, args.finalValue, args.startDate,
                        args.endDate, args.expenseRatio))
  /\ UNCHANGED <<fn, args, given, loc>>

CallSharpe ==
  /\ pc = "call"
  /\ fn = "calculateSharpeRatio"
  /\ Ends(calculateSharpeRatio(args.returns, args.riskFreeRate))
  /\ UNCHANGED <<fn, args, given, loc>>

CallDrawdown ==
  /\ pc = "call"
  /\ fn = "calculateMaxDrawdown"
  /\ Ends(calculateMaxDrawdown(args.values))
  /\ UNCHANGED <<fn, args, given, loc>>

\* lines 61 to 88
XirrValidate ==
  /\ pc = "call"
  /\ fn = "calculateXIRR"
  /\ \E v \in {xirrValidate(args.cashflows)} :
       IF v.out.kind = "throw"
       THEN Ends(v.out) /\ UNCHANGED loc
       ELSE /\ pc' = "validated"
            /\ loc' = [loc EXCEPT !.validCashflows = v.validCashflows]
            /\ UNCHANGED result
  /\ UNCHANGED <<fn, args, given>>

\* lines 90 to 107
XirrBracket ==
  /\ pc = "validated"
  /\ \E b \in {xirrBracket(loc.validCashflows)} :
       /\ loc' = b.loc
       /\ IF b.out.kind = "throw"
          THEN Ends(b.out)
          ELSE pc' = "loop" /\ UNCHANGED result
  /\ args' = [cashflows |-> Arr(AfterSort("cashflows", args.cashflows.items))]
  /\ UNCHANGED <<fn, given>>

\* lines 109 to 123, one iteration
XirrIterate ==
  /\ pc = "loop"
  /\ loc.iter < maxIterations
  /\ \E it \in {xirrIterate(loc)} :
       /\ loc' = it.loc
       /\ IF it.out.kind = "return"
          THEN Ends(it.out)
          ELSE UNCHANGED <<pc, result>>
  /\ UNCHANGED <<fn, args, given>>

\* lines 125 to 131
XirrFinal ==
  /\ pc = "loop"
  /\ loc.iter = maxIterations
  /\ Ends(xirrFinal(loc))
  /\ UNCHANGED <<fn, args, given, loc>>

NextXIRR == XirrValidate \/ XirrBracket \/ XirrIterate \/ XirrFinal

Next == CallCAGR \/ CallSharpe \/ CallDrawdown \/ NextXIRR

Spec == Init /\ [][Next]_vars

SpecCAGR == InitCAGR /\ [][CallCAGR]_vars

SpecXIRR == InitXIRR /\ [][NextXIRR]_vars

SpecSharpe == InitSharpe /\ [][CallSharpe]_vars

SpecDrawdown == InitDrawdown /\ [][CallDrawdown]_vars

(***************************************************************************)
(* The claims.                                                             *)
(***************************************************************************)
\* the call has returned a number
Returned == pc = "done" /\ result.kind = "return"

\* the items of the value series the caller passed
Values == given.values.items

\* v is a finite number above 0
IsPositive(v) == IsNumber(v) /\ v.k = "fin" /\ v.s > 0

\* the least of a set S of numbers
Least(S) == CHOOSE m \in S : \A q \in S : Le(m, q)

\* C1 as amended: whatever calculateMaxDrawdown returns is a number r with
\* -1 <= r <= 0; the bound -1 is reached by a series that falls to 0.
C1_DrawdownRange ==
  (fn = "calculateMaxDrawdown" /\ Returned)
    => Ge(result.value, Neg(One)) /\ Le(result.value, Zero)

\* C1 as stated: whatever calculateMaxDrawdown returns is a number r with
\* -1 < r <= 0.
C1_DrawdownAboveMinusOne ==
  (fn = "calculateMaxDrawdown" /\ Returned)
    => Gt(result.value, Neg(One)) /\ Le(result.value, Zero)

\* a series with a 0 after a positive peak has returned -1
C1_Witness ==
  /\ fn = "calculateMaxDrawdown" /\ Returned
  /\ Len(Values) = 3
  /\ IsPositive(Values[2]) /\ Values[3] = Zero
  /\ result.value = Neg(One)

\* the series the caller passed has at least 2 entries, all finite and above 0
PositiveSeries ==
  /\ fn = "calculateMaxDrawdown"
  /\ IsArray(given.values) /\ Len(Values) >= 2
  /\ \A i \in 1..Len(Values) : IsPositive(Values[i])

\* the highest of the values before the j-th
PeakBefore(j) ==
  CHOOSE p \in {Values[i] : i \in 1..(j - 1)} :
    \A i \in 1..(j - 1) : Ge(p, Values[i])

\* the decline from each earlier value to each later value
PairDeclines ==
  {Div(Sub(Values[j], Values[i]), Values[i]) :
     <<i, j>> \in {p \in (1..Len(Values)) \X (1..Len(Values)) : p[1] < p[2]}}

\* the decline of each value from the highest value before it
PeakDeclines ==
  {Div(Sub(Values[j], PeakBefore(j)), PeakBefore(j)) : j \in 2..Len(Values)}

StrictlyIncreasing ==
  \A i \in 1..(Len(Values) - 1) : Lt(Values[i], Values[i + 1])

\* C7 as amended: for a series of at least 2 finite values above 0,
\* calculateMaxDrawdown returns the least of 0 and the declines of each value
\* from the highest value before it, each decline (v[j] - peak) / peak
\* computed in doubles; it returns 0 for a strictly increasing series.
C7_WorstDeclineFromPeak ==
  (pc = "done" /\ PositiveSeries)
    => /\ result = Return(Least(PeakDeclines \cup {Zero}))
       /\ StrictlyIncreasing => result = Return(Zero)

\* C7 as stated: for a series of at least 2 finite values above 0,
\* calculateMaxDrawdown returns the least of 0 and the declines
\* (v[j] - v[i]) / v[i] over all pairs i < j; it returns 0 for a strictly
\* increasing series.
C7_WorstDeclineOfPairs ==
  (pc = "done" /\ PositiveSeries)
    => /\ result = Return(Least(PairDeclines \cup {Zero}))
       /\ StrictlyIncreasing => result = Return(Zero)

\* a series has risen to a new peak and then fallen below its first value
C7_Witness ==
  /\ pc = "done" /\ PositiveSeries
  /\ Len(Values) = 3
  /\ Lt(Values[1], Values[2]) /\ Lt(Values[3], Values[1])
  /\ Lt(result.value, Zero)

\* C3: a call of calculateCAGR whose initialValue, finalValue or expenseRatio
\* is NaN fails: it never returns.
C3_NaNRejected ==
  (fn = "calculateCAGR" /\ pc = "done"
     /\ (IsNaN(given.initialValue) \/ IsNaN(given.finalValue)
           \/ IsNaN(given.expenseRatio)))
    => result.kind = "throw"

\* what is passed where an array of at least 2 elements is expected is no
\* array or has fewer elements
ShortInput(a) == ~IsArray(a) \/ Length(a) < 2

\* C4: calculateXIRR, calculateSharpeRatio and calculateMaxDrawdown fail with
\* their insufficient-data error when the input is no array or has fewer than
\* 2 elements, whatever its elements are; calculateXIRR then takes no step
\* beyond its validation.
C4_InsufficientData ==
  /\ (fn = "calculateXIRR" /\ ShortInput(given.cashflows))
       => /\ pc \in {"call", "done"}
          /\ pc = "done" =>
               result = Throw("Cashflows must be an array with at least 2 entries")
  /\ (fn = "calculateSharpeRatio" /\ ShortInput(given.returns) /\ pc = "done")
       => result = Throw("Returns must be an array with at least 2 values")
  /\ (fn = "calculateMaxDrawdown" /\ ShortInput(given.values) /\ pc = "done")
       => result = Throw("Values must be an array with at least 2 elements")

\* calculateXIRR has failed on a single entry that is no object
C4_Witness ==
  /\ fn = "calculateXIRR" /\ pc = "done"
  /\ given.cashflows = Arr(<<NoObject>>)
  /\ result.kind = "throw" /\ result.index = -1

\* the arguments of calculateCAGR are valid: a finite initial value above 0,
\* two valid dates, the first before the second, and no expense ratio or one
\* from 0 up to 1
ValidForTotalLoss ==
  /\ fn = "calculateCAGR"
  /\ IsNumber(given.initialValue) /\ Gt(given.initialValue, Zero)
  /\ IsDate(given.startDate) /\ IsDate(given.endDate)
  /\ Lt(GetTime(given.startDate), GetTime(given.endDate))
  /\ \/ given.expenseRatio = Undefined
     \/ /\ IsNumber(given.expenseRatio)
        /\ Ge(given.expenseRatio, Zero) /\ Lt(given.expenseRatio, One)

\* C5: with valid arguments and the final value 0, calculateCAGR returns -1,
\* with or without an expense ratio.
C5_TotalLoss ==
  (pc = "done" /\ ValidForTotalLoss /\ given.finalValue = Zero)
    => result = Return(Neg(One))

\* a call with the final value 0 and an expense ratio of 0.01 has returned -1
C5_Witness ==
  /\ pc = "done" /\ ValidForTotalLoss /\ given.finalValue = Zero
  /\ given.expenseRatio = Dec(1, 100)
  /\ result = Return(Neg(One))

\* the returns the caller passed are at least 2 times one finite number, and
\* the risk-free rate is a finite number
ConstantReturns ==
  /\ fn = "calculateSharpeRatio"
  /\ IsArray(given.returns) /\ Length(given.returns) >= 2
  /\ \A i \in 1..Length(given.returns) :
       given.returns.items[i] = given.returns.items[1]
  /\ given.returns.items[1].k = "fin"
  /\ given.riskFreeRate.k = "fin"

\* C6: for constant returns r and a risk-free rate rf, calculateSharpeRatio
\* returns +Infinity when r > rf, -Infinity when r < rf and 0 when r = rf.
C6_ConstantSeries ==
  (pc = "done" /\ ConstantReturns)
    => result = Return(IF Gt(given.returns.items[1], given.riskFreeRate)
                       THEN PosInf
                       ELSE IF Lt(given.returns.items[1], given.riskFreeRate)
                       THEN NegInf
                       ELSE Zero)

\* the cashflows with every amount negated
Negated(cashflows) ==
  Arr([i \in 1..Length(cashflows) |->
         Cashflow(cashflows.items[i].date, Neg(cashflows.items[i].amount))])

\* C2: when calculateXIRR has returned a rate for a series, it returns the
\* same rate for the series with every amount negated.
C2_NegationKeepsRate ==
  (fn = "calculateXIRR" /\ Returned)
    => calculateXIRR(Negated(given.cashflows)) = result

\* C8: the array the caller passed to calculateXIRR is at every step of the
\* call what it was before the call: the same entries in the same order.
C8_CallerArrayUnchanged == fn = "calculateXIRR" => args = given

\* a call has returned a rate for cashflows that were not passed in the order
\* of their dates
C8_Witness ==
  /\ fn = "calculateXIRR" /\ Returned
  /\ loc.validCashflows # given.cashflows.items
  /\ args = given

\* the sequences with the elements of s in any order
Reorderings(s) ==
  {[i \in 1..Len(s) |-> s[f[i]]] :
     f \in {g \in [1..Len(s) -> 1..Len(s)] :
              \A a, b \in 1..Len(s) : g[a] = g[b] => a = b}}

\* the call has returned a rate or failed for the signs of the amounts, for
\* the bracket or for the convergence
RateOrNoRate ==
  /\ fn = "calculateXIRR" /\ pc = "done"
  /\ \/ result.kind = "return"
     \/ result.msg \in
          {"Cashflows must contain at least one positive and one negative amount",
           "Cannot calculate XIRR: No solution found in the search range",
           "Cannot calculate XIRR: NPV does not converge to zero"}

\* C9: however the entries of a series are ordered, calculateXIRR ends the
\* same way: with the same rate or with the same failure.
C9_OrderIndependent ==
  RateOrNoRate
    => \A p \in Reorderings(given.cashflows.items) :
         calculateXIRR(Arr(p)) = result

\* the call has ended after its bracket check has passed
BracketPassed ==
  /\ fn = "calculateXIRR" /\ pc = "done"
  /\ loc.refDate # Undefined
  /\ result.msg # "Cannot calculate XIRR: No solution found in the search range"

\* C10: once the bracket check has passed, calculateXIRR returns a rate.
C10_BracketConverges == BracketPassed => result.kind = "return"

\* |npv(r)| for the rate the call has returned, over the sorted validCashflows
ReturnedNpv == Abs(npv(result.value, loc.validCashflows, loc.refDate))

Entries == given.cashflows.items

\* the caller passed at least 2 entries, each with a valid date and a number
\* that is not NaN for an amount, among them an amount above 0, an amount
\* below 0 and an amount of 0
MixedSeriesWithZero ==
  /\ fn = "calculateXIRR"
  /\ IsArray(given.cashflows) /\ Len(Entries) >= 2
  /\ \A i \in 1..Len(Entries) :
       /\ Entries[i].obj
       /\ IsDate(Entries[i].date) /\ ~IsNaN(GetTime(Entries[i].date))
       /\ IsNumber(Entries[i].amount) /\ ~IsNaN(Entries[i].amount)
  /\ \E i \in 1..Len(Entries) : Gt(Entries[i].amount, Zero)
  /\ \E i \in 1..Len(Entries) : Lt(Entries[i].amount, Zero)
  /\ \E i \in 1..Len(Entries) : Entries[i].amount = Zero

\* C12: a series of valid entries with an amount above 0, an amount below 0
\* and an amount of 0 passes the validation of calculateXIRR: the call goes
\* on to the bracket check and does not end with a validation error.
C12_ZeroAmountAccepted ==
  (MixedSeriesWithZero /\ pc = "done")
    => /\ loc.refDate # Undefined
       /\ result.index = -1
====
